---- MODULE Spec2Model ----
(***************************************************************************)
(* Model of bot/exts/evergreen/emojify/emojify_cog.py: the Font, Emoji and *)
(* Tileset helper classes, the Emojify helper methods (_flatten_list,      *)
(* _add_letter, _emojify), the emojify command and its local error         *)
(* handler.                                                                *)
(*                                                                         *)
(* A Python str is a sequence of one-character strings, a list is a        *)
(* sequence, a dict is a function on its keys.  A call that may raise      *)
(* returns a record whose field kind is "ok" or the exception's class.     *)
(***************************************************************************)
EXTENDS Integers, Sequences, FiniteSets, TLC

VARIABLES
    cache,      \* the tileset image directory: [image path -> 0 (no file), a version, or Truncated]
    remote,     \* the version of the pngs the repository serves now
    pending,    \* the call about to be made, with its arguments, or NoCall
    last        \* the last call made, with its arguments and its outcome

vars == <<cache, remote, pending, last>>

-----------------------------------------------------------------------------
(* Bounds of the model.                                                    *)

MaxLen == 3         \* longest text passed to _emojify
MaxCmdLen == 2      \* longest text passed to the emojify command
MaxRows == 2        \* most rows of a list passed to to_image and _flatten_list
MaxCols == 2        \* most elements of one row of such a list
MaxVersion == 2     \* versions of the pngs the repository goes through

-----------------------------------------------------------------------------
(* Input alphabets.                                                        *)

\* Characters of the input text: two letters in both cases and a non-letter.
Chars == {"a", "b", "A", "B", "!"}

\* bot.exts.evergreen.emojify.constants.EMOJIS: the tile names every Tileset
\* creates an Emoji for.  The fonts name the tiles "x", "y" and "z"; "z" is a
\* tile EMOJIS lacks.
EMOJIS == {"x", "y"}

\* bot.exts.evergreen.emojify.constants.REPO_IMG_URLS: the known tilesets.
REPO_IMG_URLS == {"twemoji"}

\* Tileset names a user may type.
TilesetNames == {"twemoji", "nosuch"}

\* Guild ids; None is a command sent outside a guild (ctx.guild is None).
None == "None"
Guilds == {"1", "2"}
Contexts == Guilds \cup {None}

\* tileset_config/<guild id>/<tileset>.json files on disk: guild 1 has one
\* for twemoji, guild 2 has none.
tileset_config == {<<"1", "twemoji">>}

SeqsUpTo(S, n) == UNION {[1..k -> S] : k \in 0..n}

-----------------------------------------------------------------------------
(* Font: the object Font.load fills from fonts/<name>.json.  Every         *)
(* character's grid has font_height rows; the rows of one character may    *)
(* differ in width.                                                        *)

rundi ==
    [name |-> "rundi", font_height |-> 2, lowercase_only |-> TRUE,
     characters |-> [c \in {"a", "b"} |->
        IF c = "a" THEN << <<"x", "y">>, <<"y", "x">> >>
                   ELSE << <<"x">>, <<"y", "y">> >>]]

mixed ==
    [name |-> "mixed", font_height |-> 2, lowercase_only |-> FALSE,
     characters |-> [c \in {"a", "A", "b", "!"} |->
        CASE c = "a" -> << <<"x">>, <<"y">> >>
          [] c = "A" -> << <<"y", "y">>, <<"x", "x">> >>
          [] c = "b" -> << <<"x">>, <<"z">> >>
          [] OTHER   -> << <<>>, <<"x">> >>]]

line ==
    [name |-> "line", font_height |-> 1, lowercase_only |-> TRUE,
     characters |-> [c \in {"a", "b", "A"} |->
        CASE c = "a" -> << <<"x", "z">> >>
          [] c = "b" -> << <<"y">> >>
          [] OTHER   -> << <<"y", "y">> >>]]

flat ==
    [name |-> "flat", font_height |-> 0, lowercase_only |-> FALSE,
     characters |-> [c \in {"a"} |-> << >>]]

Fonts == {rundi, mixed, line, flat}

-----------------------------------------------------------------------------
(* Outcomes of a call.                                                     *)

Ok(v) == [kind |-> "ok", value |-> v]

\* BadArgument(f"The character `{letter}` is not supported by the font {font.name}")
BadArgument(letter, font) ==
    [kind |-> "BadArgument",
     letter |-> letter, font |-> font.name,
     message |-> <<"The character ", letter, " is not supported by the font ", font.name>>]

\* dict[key] on a key the dict does not hold
KeyError(key) == [kind |-> "KeyError", key |-> key]

-----------------------------------------------------------------------------
(* Emoji and Tileset.                                                      *)

\* Emoji(name) with the attributes Tileset.__init__ sets on it.
Emoji(name, tileset_name) ==
    [name |-> name,
     tileset |-> tileset_name,
     image_path |-> <<"tilesets", tileset_name, name>>]

\* Tileset.__init__ after REPO_IMG_URLS[name] was found: one Emoji per name
\* in EMOJIS; mappings holds the guilds whose mapping was loaded.
Tileset(name, mappings) ==
    [name |-> name,
     mappings |-> mappings,
     emojis |-> [e \in EMOJIS |-> Emoji(e, name)]]

-----------------------------------------------------------------------------
(* Emojify._add_letter and Emojify._emojify.                               *)

\* str.lower() on one character of the alphabet
LowerChar(c) == CASE c = "A" -> "a" [] c = "B" -> "b" [] OTHER -> c

\* text.lower()
lower(text) == [i \in 1..Len(text) |-> LowerChar(text[i])]

\* not (letter_data := font.characters.get(letter)): the key is absent (None)
\* or its value is an empty list.
NoLetterData(font, letter) ==
    \/ letter \notin DOMAIN font.characters
    \/ font.characters[letter] = << >>

\* Mutant of AppendPieces: insert(0, ...) in place of append.
RECURSIVE AppendPieces_prepend(_, _, _, _)
AppendPieces_prepend(row_list, pieces, k, tileset) ==
    IF k > Len(pieces) THEN Ok(row_list)
    ELSE IF pieces[k] \notin DOMAIN tileset.emojis THEN KeyError(pieces[k])
    ELSE AppendPieces_prepend(<<tileset.emojis[pieces[k]]>> \o row_list, pieces, k + 1, tileset)

\* Mutant of AppendPieces: the last piece of the row is left out.
RECURSIVE AppendPieces_short(_, _, _, _)
AppendPieces_short(row_list, pieces, k, tileset) ==
    IF k >= Len(pieces) THEN Ok(row_list)
    ELSE IF pieces[k] \notin DOMAIN tileset.emojis THEN KeyError(pieces[k])
    ELSE AppendPieces_short(Append(row_list, tileset.emojis[pieces[k]]), pieces, k + 1, tileset)

\* for piece in letter_data[row]: emoji_list[row].append(tileset.emojis[piece])
RECURSIVE AppendPieces(_, _, _, _)
AppendPieces(row_list, pieces, k, tileset) ==
    IF k > Len(pieces) THEN Ok(row_list)
    ELSE IF pieces[k] \notin DOMAIN tileset.emojis THEN KeyError(pieces[k])
    ELSE AppendPieces(Append(row_list, tileset.emojis[pieces[k]]), pieces, k + 1, tileset)

\* for row in range(font.font_height): ... ; rows are numbered from 1 here.
RECURSIVE AddLetterRows(_, _, _, _, _)
AddLetterRows(emoji_list, letter, font, tileset, row) ==
    IF row > font.font_height THEN Ok(emoji_list)
    ELSE IF NoLetterData(font, letter) THEN BadArgument(letter, font)
    ELSE LET r == AppendPieces(emoji_list[row], font.characters[letter][row], 1, tileset)
         IN  IF r.kind # "ok" THEN r
             ELSE AddLetterRows([emoji_list EXCEPT ![row] = r.value],
                                letter, font, tileset, row + 1)

\* Mutant of _add_letter: a letter the font lacks is skipped without an error.
_add_letter_skip(emoji_list, letter, font, tileset) ==
    IF NoLetterData(font, letter) THEN Ok(emoji_list)
    ELSE AddLetterRows(emoji_list, letter, font, tileset, 1)

_add_letter(emoji_list, letter, font, tileset) ==
    AddLetterRows(emoji_list, letter, font, tileset, 1)

\* for letter in text: Emojify._add_letter(...)
RECURSIVE EmojifyLoop(_, _, _, _, _)
EmojifyLoop(emoji_list, text, i, font, tileset) ==
    IF i > Len(text) THEN Ok(emoji_list)
    ELSE LET r == _add_letter(emoji_list, text[i], font, tileset)
         IN  IF r.kind # "ok" THEN r
             ELSE EmojifyLoop(r.value, text, i + 1, font, tileset)

\* Mutant of Folded: lowercase_only is ignored.
Folded_never(text, font) == text

\* if font.lowercase_only: text = text.lower()
Folded(text, font) == IF font.lowercase_only THEN lower(text) ELSE text

_emojify(text, font, tileset) ==
    EmojifyLoop([r \in 1..font.font_height |-> << >>], Folded(text, font), 1, font, tileset)

-----------------------------------------------------------------------------
(* Emojify._flatten_list.  An element of the input list is a list,         *)
(* [list |-> elements], or a str, [str |-> characters]; output is a list   *)
(* of strs, joined at the end.                                             *)

NL == "\n"

PyList(elements) == [list |-> elements]
PyStr(characters) == [str |-> characters]

\* type(element) == list
IsList(element) == "list" \in DOMAIN element

\* "".join(output)
RECURSIVE Join(_, _)
Join(output, i) ==
    IF i > Len(output) THEN << >> ELSE output[i] \o Join(output, i + 1)

\* Mutant of ExtendRow: no newline after the flattened sublist.
ExtendRow_nonewline(output, flattened) ==
    output \o [k \in 1..Len(flattened) |-> <<flattened[k]>>]

\* output.extend(Emojify._flatten_list(element)); output.extend("\n"):
\* extend adds the characters of the str one by one.
ExtendRow(output, flattened) ==
    (output \o [k \in 1..Len(flattened) |-> <<flattened[k]>>]) \o <<<<NL>>>>

RECURSIVE FlattenLoop(_, _, _)
RECURSIVE _flatten_list(_)

\* for element in input_list: ...
FlattenLoop(output, input_list, i) ==
    IF i > Len(input_list) THEN output
    ELSE IF IsList(input_list[i])
         THEN FlattenLoop(ExtendRow(output, _flatten_list(input_list[i].list)), input_list, i + 1)
         ELSE FlattenLoop(Append(output, input_list[i].str), input_list, i + 1)

_flatten_list(input_list) == Join(FlattenLoop(<< >>, input_list, 1), 1)

\* The text tokens Tileset.to_mapping puts in a row.
Tokens == {<<"x">>, <<"<", "y", ">">>}

TokenRows == SeqsUpTo(Tokens, MaxCols)
TokenGrids == SeqsUpTo(TokenRows, MaxRows)

\* The Python value of a grid of tokens: a list of lists of strs.
AsPython(grid) ==
    [r \in 1..Len(grid) |-> PyList([k \in 1..Len(grid[r]) |-> PyStr(grid[r][k])])]

-----------------------------------------------------------------------------
(* Emoji.load_image and Tileset.to_image.  files is the image directory,   *)
(* [image_path -> 0 (no file), the version of the png stored, or Truncated *)
(* for a file whose download broke off]; net is the network during the     *)
(* call; fetched is the list of the paths written by a download so far.    *)

\* The image paths Tileset.__init__ gives the emojis of the known tilesets.
Paths == {Emoji(e, t).image_path : e \in EMOJIS, t \in REPO_IMG_URLS}

\* Image.open(path).size[0]: the width of a tile's png, the same for every
\* png of the repository.
PngWidth == 2

\* What is in a file whose download broke off.
Truncated == 0 - 1

\* urllib.request.urlretrieve(self.image_url, self.image_path): the download
\* succeeds while the network serves; after that it fails, before the file is
\* created (URLError) or, when net.cut, with part of the file written
\* (ContentTooShortError).
urlretrieve(emoji, io, net) ==
    IF Len(io.fetched) < net.served
    THEN [kind |-> "ok",
          files |-> [io.files EXCEPT ![emoji.image_path] = io.serving],
          serving |-> io.serving,
          fetched |-> Append(io.fetched, emoji.image_path)]
    ELSE IF net.cut
    THEN [kind |-> "ContentTooShortError",
          files |-> [io.files EXCEPT ![emoji.image_path] = Truncated],
          serving |-> io.serving,
          fetched |-> Append(io.fetched, emoji.image_path)]
    ELSE [io EXCEPT !.kind = "URLError"]

\* Mutant of load_image: the file is downloaded whether it exists or not.
load_image_always(emoji, force_reload, io, net) == urlretrieve(emoji, io, net)

\* if not os.path.isfile(self.image_path) or force_reload: urlretrieve(...)
load_image(emoji, force_reload, io, net) ==
    IF io.files[emoji.image_path] = 0 \/ force_reload
    THEN urlretrieve(emoji, io, net)
    ELSE io

\* Image.open(emoji.image_path) and the read of the pixels: a truncated file
\* is no image.
ImageOpen(emoji, io) ==
    IF io.files[emoji.image_path] = Truncated
    THEN [io EXCEPT !.kind = "OSError"]
    ELSE io

\* emoji.load_image(); image = Image.open(emoji.image_path)
LoadAndOpen(emoji, io, net) ==
    LET loaded == load_image(emoji, FALSE, io, net)
    IN  IF loaded.kind # "ok" THEN loaded ELSE ImageOpen(emoji, loaded)

\* The state of the files and the network a call starts in.
StartIO(files, serving) ==
    [kind |-> "ok", files |-> files, serving |-> serving, fetched |-> << >>]

\* tiles_wide: int = len(input_list[0])
TilesWide(input_list) == Len(input_list[1])

\* for row in range(len(input_list)): for col, emoji in enumerate(input_list[row]):
\*     emoji.load_image(); image = Image.open(emoji.image_path)
\*     output.paste(image, (col*tile_size, row*tile_size))
\* row and col count from 1 here; a paste records the tile, the version of the
\* png read from the file and the box it covers.
RECURSIVE PasteLoop(_, _, _, _, _, _, _)
PasteLoop(output, input_list, row, col, tile_size, io, net) ==
    IF row > Len(input_list) THEN [io EXCEPT !.kind = "ok"] @@ [image |-> output]
    ELSE IF col > Len(input_list[row])
    THEN PasteLoop(output, input_list, row + 1, 1, tile_size, io, net)
    ELSE LET emoji == input_list[row][col]
             loaded == LoadAndOpen(emoji, io, net)
         IN  IF loaded.kind # "ok" THEN loaded
             ELSE PasteLoop(
                    [output EXCEPT !.pasted = Append(@,
                        [tile |-> emoji.name,
                         version |-> loaded.files[emoji.image_path],
                         left |-> (col - 1) * tile_size,
                         top |-> (row - 1) * tile_size,
                         right |-> (col - 1) * tile_size + PngWidth,
                         bottom |-> (row - 1) * tile_size + PngWidth])],
                    input_list, row, col + 1, tile_size, loaded, net)

\* Tileset.to_image: the image and the files left behind, or the exception
\* and the files left behind.
to_image(input_list, io, net) ==
    IF Len(input_list) = 0 THEN [io EXCEPT !.kind = "IndexError"]          \* input_list[0]
    ELSE IF Len(input_list[1]) = 0 THEN [io EXCEPT !.kind = "IndexError"]  \* input_list[0][0]
    ELSE LET tiles_wide == TilesWide(input_list)
             tiles_high == Len(input_list)
             first == LoadAndOpen(input_list[1][1], io, net)
             tile_size == PngWidth
         IN  IF first.kind # "ok" THEN first
             ELSE PasteLoop([width |-> tiles_wide * tile_size,
                             height |-> tiles_high * tile_size,
                             pasted |-> << >>],
                            input_list, 1, 1, tile_size, first, net)

\* The network during a call: it serves all the downloads the call can need,
\* or only the first ones; the download it fails may leave a truncated file.
Network == [served : 0..Cardinality(Paths), cut : BOOLEAN]

-----------------------------------------------------------------------------
(* Calls of the helper methods, each on arguments drawn from bounded sets. *)

NoCall == [op |-> "none"]

\* The grids of emojis of the twemoji tileset passed to to_image.
EmojiRows == SeqsUpTo({Emoji(e, "twemoji") : e \in EMOJIS}, MaxCols)
EmojiGrids == SeqsUpTo(EmojiRows, MaxRows)

HelperCalls ==
    {[op |-> "_emojify", text |-> text, font |-> font, tileset |-> Tileset("twemoji", {})] :
        text \in SeqsUpTo(Chars, MaxLen), font \in Fonts}
    \cup {[op |-> "_flatten_list", grid |-> grid] : grid \in TokenGrids}
    \cup {[op |-> "to_image", grid |-> grid, net |-> net] :
        grid \in EmojiGrids, net \in Network}

InitCalls ==
    /\ cache \in [Paths -> {Truncated, 0, 1}]
    /\ remote = 1
    /\ pending \in HelperCalls
    /\ last = NoCall

CallEmojify ==
    /\ pending.op = "_emojify"
    /\ last' = pending @@ [out |-> _emojify(pending.text, pending.font, pending.tileset)]
    /\ pending' = NoCall
    /\ UNCHANGED <<cache, remote>>

CallFlatten ==
    /\ pending.op = "_flatten_list"
    /\ last' = pending @@ [out |-> _flatten_list(AsPython(pending.grid))]
    /\ pending' = NoCall
    /\ UNCHANGED <<cache, remote>>

CallToImage ==
    /\ pending.op = "to_image"
    /\ LET out == to_image(pending.grid, StartIO(cache, remote), pending.net)
       IN  /\ last' = pending @@ [out |-> out]
           /\ cache' = out.files
    /\ pending' = NoCall
    /\ UNCHANGED remote

NextCalls == CallEmojify \/ CallFlatten \/ CallToImage

SpecCalls == InitCalls /\ [][NextCalls]_vars

-----------------------------------------------------------------------------
(* The emojify command and its error handler.                              *)

\* fonts/rundi.json: absent, or holding the data of one of the fonts.
FontFiles == {[exists |-> FALSE]} \cup {[exists |-> TRUE, data |-> f] : f \in Fonts}

\* Font.__init__ and Font.load: self.name = name, then the file's data.
Font(name, file) == [file.data EXCEPT !.name = name]

\* Characters of the text of a command.
CmdChars == {"a", "b", "!"}

\* What a user may send: the context, the two arguments, and with them the
\* font file on disk, the network at that moment and whether Discord accepts
\* the reply.
Invocations ==
    [guild : Contexts,
     tileset_name : TilesetNames,
     text : SeqsUpTo(CmdChars, MaxCmdLen),
     font_file : FontFiles,
     net : Network,
     delivered : BOOLEAN]

Raised(kind, io) == [error |-> [kind |-> kind], files |-> io.files, fetched |-> io.fetched]

\* Emojify.emojify_command, up to the exception it raises or the message it
\* sends.  text is a required argument: without it the framework raises
\* MissingRequiredArgument before the body runs.
emojify_command(ctx, io) ==
    IF ctx.text = << >> THEN Raised("MissingRequiredArgument", io)
    \* tileset = Tileset(name=tileset_name, guild=ctx.guild)
    ELSE IF ctx.tileset_name \notin REPO_IMG_URLS THEN Raised("KeyError", io)
    ELSE IF ctx.guild # None /\ <<ctx.guild, ctx.tileset_name>> \notin tileset_config
         THEN Raised("FileNotFoundError", io)
    \* Font(name="rundi")
    ELSE IF ~ctx.font_file.exists THEN Raised("FileNotFoundError", io)
    ELSE LET tileset == Tileset(ctx.tileset_name, IF ctx.guild # None THEN {ctx.guild} ELSE {})
             output == _emojify(ctx.text, Font("rundi", ctx.font_file), tileset)
         IN  IF output.kind # "ok"
             THEN [error |-> output, files |-> io.files, fetched |-> io.fetched]
             ELSE LET result == to_image(output.value, io, ctx.net)
                  IN  IF result.kind # "ok" THEN Raised(result.kind, result)
                      \* await ctx.send(file=file)
                      ELSE IF ~ctx.delivered
                      THEN [error |-> [kind |-> "HTTPException", text |-> "Request entity too large"],
                            files |-> result.files, fetched |-> result.fetched]
                      ELSE [error |-> [kind |-> "none"],
                            files |-> result.files,
                            fetched |-> result.fetched,
                            sent |-> <<[file |-> result.image]>>]

NotFoundText == "We can't seem to find that tileset/font."

\* Emojify.command_error: the messages sent to the channel and the log lines.
command_error(error) ==
    LET embed == [colour |-> "red", title |-> "NEGATIVE_REPLIES", description |-> None]
        found == IF error.kind = "FileNotFoundError"
                 THEN [embed EXCEPT !.description = NotFoundText]
                 ELSE embed
    IN  IF error.kind = "BadArgument"
        THEN [sent |-> <<[embed |-> [found EXCEPT !.description = error.message]]>>,
              log |-> << >>]
        ELSE IF error.kind = "IncompleteConfigurationError"
        THEN [sent |-> <<[embed |-> [found EXCEPT
                            !.title = "ERROR_REPLIES",
                            !.description = "We can't seem to find the required emojis. Sorry for the inconvenience."]]>>,
              log |-> <<"warning">>]
        ELSE IF error.kind = "HTTPException" /\ error.text = "Must be 2000 or fewer in length."
        THEN [sent |-> <<[embed |-> [found EXCEPT
                            !.description = "That message is far too long to be sent using emojis."]]>>,
              log |-> << >>]
        ELSE IF error.kind = "MissingRequiredArgument"
        THEN [sent |-> <<[help |-> "emojify"]>>, log |-> << >>]
        ELSE [sent |-> << >>, log |-> <<"Unhandled tag command error">>]

\* One invocation from the message to the last message sent: the command,
\* then the error handler when the command raised.
Dispatch(ctx, files, serving) ==
    LET done == emojify_command(ctx, StartIO(files, serving))
    IN  IF done.error.kind = "none"
        THEN [error |-> "none", sent |-> done.sent, log |-> << >>,
              files |-> done.files, fetched |-> done.fetched]
        ELSE LET handled == command_error(done.error)
             IN  [error |-> done.error.kind, sent |-> handled.sent, log |-> handled.log,
                  files |-> done.files, fetched |-> done.fetched]

InitCommand ==
    /\ cache = [p \in Paths |-> 0]
    /\ remote = 1
    /\ pending = NoCall
    /\ last = NoCall

Idle == pending = NoCall /\ last.op # "emojify_command"

\* A user sends the command.
Invoke ==
    /\ Idle
    /\ \E ctx \in Invocations :
        pending' = [op |-> "emojify_command", ctx |-> ctx]
    /\ last' = NoCall
    /\ UNCHANGED <<cache, remote>>

\* The command runs, with its error handler.
EmojifyCommand ==
    /\ pending.op = "emojify_command"
    /\ LET done == Dispatch(pending.ctx, cache, remote)
       IN  /\ last' = [op |-> "emojify_command", ctx |-> pending.ctx, before |-> cache,
                       force_reload |-> FALSE, error |-> done.error, sent |-> done.sent,
                       log |-> done.log, fetched |-> done.fetched]
           /\ cache' = done.files
    /\ pending' = NoCall
    /\ UNCHANGED remote

\* The invocation is over.
Return ==
    /\ last.op = "emojify_command"
    /\ last' = NoCall
    /\ UNCHANGED <<cache, remote, pending>>

\* Emoji.load_image called on an emoji of the tileset, forced or not.
LoadImage ==
    /\ Idle
    /\ \E e \in EMOJIS, force_reload \in BOOLEAN, net \in Network :
        LET done == load_image(Emoji(e, "twemoji"), force_reload, StartIO(cache, remote), net)
        IN  /\ last' = [op |-> "load_image", force_reload |-> force_reload,
                        error |-> done.kind, fetched |-> done.fetched]
            /\ cache' = done.files
    /\ UNCHANGED <<remote, pending>>

\* The repository's tile images change.
RemoteUpdate ==
    /\ Idle
    /\ remote < MaxVersion
    /\ remote' = remote + 1
    /\ last' = NoCall
    /\ UNCHANGED <<cache, pending>>

NextCommand == Invoke \/ EmojifyCommand \/ Return \/ LoadImage \/ RemoteUpdate

SpecCommand == InitCommand /\ [][NextCommand]_vars

-----------------------------------------------------------------------------
(* Properties of _emojify, stated on the call recorded in last.            *)

IsEmojify == last.op = "_emojify"

\* The text the letters are taken from.
LookedUp == Folded(last.text, last.font)

Unsupported(font, c) == c \notin DOMAIN font.characters

\* The tile names of character c's grid.
PiecesOf(font, c) ==
    UNION {{font.characters[c][r][k] : k \in 1..Len(font.characters[c][r])} :
            r \in 1..Len(font.characters[c])}

\* Character c is in the font and its grid names a tile the tileset lacks.
Unmapped(font, c, tileset) ==
    /\ ~Unsupported(font, c)
    /\ \E p \in PiecesOf(font, c) : p \notin DOMAIN tileset.emojis

FirstUnsupported(font, t) ==
    CHOOSE i \in 1..Len(t) :
        /\ Unsupported(font, t[i])
        /\ \A j \in 1..(i - 1) : ~Unsupported(font, t[j])

RECURSIVE RowTiles(_, _, _, _)
RowTiles(font, t, r, i) ==
    IF i > Len(t) THEN 0
    ELSE Len(font.characters[t[i]][r]) + RowTiles(font, t, r, i + 1)

\* C1 as stated: a text holding a character the font has no entry for makes
\* _emojify raise BadArgument naming such a character and the font, whatever
\* the other characters are.
C1_AlwaysBadArgument ==
    (/\ IsEmojify
     /\ last.font.font_height > 0
     /\ \E i \in 1..Len(LookedUp) : Unsupported(last.font, LookedUp[i]))
    => /\ last.out.kind = "BadArgument"
       /\ \E i \in 1..Len(LookedUp) :
            /\ Unsupported(last.font, LookedUp[i])
            /\ last.out = BadArgument(LookedUp[i], last.font)

\* C1 amended: such a text never yields a grid; the error is BadArgument
\* naming the first character without an entry and the font, unless a
\* character before it references a tile the tileset has no Emoji for, and
\* then the KeyError of that lookup is raised.
C1_UnsupportedCharacterFails ==
    (/\ IsEmojify
     /\ last.font.font_height > 0
     /\ \E i \in 1..Len(LookedUp) : Unsupported(last.font, LookedUp[i]))
    => LET i == FirstUnsupported(last.font, LookedUp)
           earlier == \E j \in 1..(i - 1) : Unmapped(last.font, LookedUp[j], last.tileset)
       IN  /\ last.out.kind # "ok"
           /\ ~earlier => last.out = BadArgument(LookedUp[i], last.font)
           /\ earlier => last.out.kind = "KeyError"

\* Witness of C1: the character without an entry comes last, after supported
\* ones, and BadArgument names it.
C1_Witness ==
    /\ IsEmojify
    /\ last.font.font_height > 0
    /\ Len(LookedUp) = 3
    /\ ~Unsupported(last.font, LookedUp[1])
    /\ ~Unsupported(last.font, LookedUp[2])
    /\ Unsupported(last.font, LookedUp[3])
    /\ last.out = BadArgument(LookedUp[3], last.font)

\* C2 as stated: a text of supported characters, one of which references a
\* tile the tileset has no entry for, makes _emojify raise
\* IncompleteConfigurationError.
C2_UnmappedTileRaisesConfigurationError ==
    (/\ IsEmojify
     /\ \A i \in 1..Len(LookedUp) : ~Unsupported(last.font, LookedUp[i])
     /\ \E i \in 1..Len(LookedUp) : Unmapped(last.font, LookedUp[i], last.tileset))
    => last.out.kind = "IncompleteConfigurationError"

\* Row-wise concatenation of two outcomes: the first error, or the grid whose
\* row r is row r of the first followed by row r of the second.
RowWise(r1, r2) ==
    IF r1.kind # "ok" THEN r1
    ELSE IF r2.kind # "ok" THEN r2
    ELSE Ok([r \in 1..Len(r1.value) |-> r1.value[r] \o r2.value[r]])

\* C4: for every way of cutting the text into t1 and t2, _emojify(t1 + t2) is
\* _emojify(t1) with _emojify(t2) appended row by row (and fails exactly as the
\* first of the two that fails).
C4_ConcatenationIsRowWise ==
    IsEmojify =>
        \A k \in 0..Len(last.text) :
            last.out = RowWise(
                _emojify(SubSeq(last.text, 1, k), last.font, last.tileset),
                _emojify(SubSeq(last.text, k + 1, Len(last.text)), last.font, last.tileset))

\* Witness of C4: a grid of two rows made of three characters, not all alike.
C4_Witness ==
    /\ IsEmojify
    /\ Len(last.text) = 3
    /\ last.text[1] # last.text[2]
    /\ last.out.kind = "ok"
    /\ Len(last.out.value) = 2
    /\ \A r \in 1..Len(last.out.value) : Len(last.out.value[r]) >= 3

\* C5 as stated: a text of supported characters always yields a grid of
\* font_height rows whose row r has as many tiles as the characters' rows r
\* together.
C5_AlwaysAGrid ==
    (/\ IsEmojify
     /\ \A i \in 1..Len(LookedUp) : ~Unsupported(last.font, LookedUp[i]))
    => /\ last.out.kind = "ok"
       /\ Len(last.out.value) = last.font.font_height
       /\ \A r \in 1..last.font.font_height :
            Len(last.out.value[r]) = RowTiles(last.font, LookedUp, r, 1)

\* C5 amended: a text of supported characters yields that grid when the
\* tileset has an Emoji for every tile the characters reference, and raises
\* KeyError (no grid) otherwise.
C5_GridShape ==
    (/\ IsEmojify
     /\ \A i \in 1..Len(LookedUp) : ~Unsupported(last.font, LookedUp[i]))
    => IF \E i \in 1..Len(LookedUp) : Unmapped(last.font, LookedUp[i], last.tileset)
       THEN last.out.kind = "KeyError"
       ELSE /\ last.out.kind = "ok"
            /\ Len(last.out.value) = last.font.font_height
            /\ \A r \in 1..last.font.font_height :
                 Len(last.out.value[r]) = RowTiles(last.font, LookedUp, r, 1)

\* Witness of C5: three supported characters whose rows differ in width.
C5_Witness ==
    /\ IsEmojify
    /\ Len(LookedUp) = 3
    /\ last.out.kind = "ok"
    /\ Len(last.out.value) = 2
    /\ Len(last.out.value[1]) # Len(last.out.value[2])
    /\ Len(last.out.value[1]) = RowTiles(last.font, LookedUp, 1, 1)

UpperChar(c) == CASE c = "a" -> "A" [] c = "b" -> "B" [] OTHER -> c

\* The texts got from t by upper-casing some of its letters.
UpperVariants(t) ==
    {u \in [1..Len(t) -> Chars] : \A i \in 1..Len(t) : u[i] \in {t[i], UpperChar(t[i])}}

\* C9: under a lowercase-only font a text and every upper-cased variant of it
\* have the same outcome; under a font that is not, the characters are looked
\* up as typed: a character typed without an entry is an error (its lower-case
\* form having one does not help) and a single character with an entry yields
\* the tiles of that very entry.
C9_CaseFolding ==
    IsEmojify =>
        /\ last.font.lowercase_only =>
             \A u \in UpperVariants(last.text) :
                 _emojify(u, last.font, last.tileset) = last.out
        /\ (~last.font.lowercase_only /\ last.font.font_height > 0) =>
             /\ (\E i \in 1..Len(last.text) : Unsupported(last.font, last.text[i]))
                    => /\ last.out.kind # "ok"
                       /\ last.out.kind = "BadArgument" =>
                            last.out.letter = last.text[FirstUnsupported(last.font, last.text)]
             /\ (/\ Len(last.text) = 1
                 /\ ~Unsupported(last.font, last.text[1])
                 /\ ~Unmapped(last.font, last.text[1], last.tileset))
                    => /\ last.out.kind = "ok"
                       /\ \A r \in 1..last.font.font_height :
                            last.out.value[r] =
                                [k \in 1..Len(last.font.characters[last.text[1]][r]) |->
                                    last.tileset.emojis[last.font.characters[last.text[1]][r][k]]]

\* Witness of C9: an upper-case letter rendered by a lowercase-only font whose
\* characters hold only its lower-case form.
C9_Witness ==
    /\ IsEmojify
    /\ last.font.lowercase_only
    /\ last.text = <<"A", "b">>
    /\ Unsupported(last.font, "A")
    /\ last.out.kind = "ok"

-----------------------------------------------------------------------------
(* Properties of _flatten_list.                                            *)

IsFlatten == last.op = "_flatten_list"

\* The tokens of a row one after the other, nothing between them.
RECURSIVE RowText(_, _)
RowText(row, k) ==
    IF k > Len(row) THEN << >> ELSE row[k] \o RowText(row, k + 1)

\* The rows in order with one newline between consecutive rows and none after
\* the last.
RECURSIVE Separated(_, _)
Separated(grid, r) ==
    IF r > Len(grid) THEN << >>
    ELSE IF r = Len(grid) THEN RowText(grid[r], 1)
    ELSE (RowText(grid[r], 1) \o <<NL>>) \o Separated(grid, r + 1)

\* The rows in order, each followed by one newline.
RECURSIVE Terminated(_, _)
Terminated(grid, r) ==
    IF r > Len(grid) THEN << >>
    ELSE (RowText(grid[r], 1) \o <<NL>>) \o Terminated(grid, r + 1)

NewLines(text) == Cardinality({i \in 1..Len(text) : text[i] = NL})

\* C7 as stated: the rows joined in order, one newline per boundary between
\* consecutive rows and no trailing one.
C7_NoTrailingNewline ==
    IsFlatten => last.out = Separated(last.grid, 1)

\* C7 amended: the rows joined in order, each row, the last one included,
\* followed by exactly one newline: H rows give H newlines and the text of a
\* grid that has a row ends with a newline.
C7_NewlineAfterEveryRow ==
    IsFlatten =>
        /\ last.out = Terminated(last.grid, 1)
        /\ NewLines(last.out) = Len(last.grid)
        /\ Len(last.grid) > 0 => last.out[Len(last.out)] = NL

\* Witness of C7: two rows of two tokens each.
C7_Witness ==
    /\ IsFlatten
    /\ Len(last.grid) = 2
    /\ Len(last.grid[1]) = 2
    /\ Len(last.grid[2]) = 2
    /\ last.grid[1] # last.grid[2]
    /\ NewLines(last.out) = 2

-----------------------------------------------------------------------------
(* Properties of Tileset.to_image.                                         *)

IsToImage == last.op = "to_image"

\* The width of the widest row of a grid that has a row.
MaxRowWidth(grid) ==
    CHOOSE w \in {Len(grid[r]) : r \in 1..Len(grid)} :
        \A r \in 1..Len(grid) : Len(grid[r]) <= w

\* C3 as stated: the canvas of the image to_image returns is as wide as the
\* widest row and as high as the grid, in tiles of the first png's width,
\* and every tile pasted lies inside it.
C3_CanvasHoldsEveryRow ==
    (IsToImage /\ last.out.kind = "ok")
    => /\ last.out.image.width = MaxRowWidth(last.grid) * PngWidth
       /\ last.out.image.height = Len(last.grid) * PngWidth
       /\ \A i \in 1..Len(last.out.image.pasted) :
            /\ last.out.image.pasted[i].right <= last.out.image.width
            /\ last.out.image.pasted[i].bottom <= last.out.image.height

-----------------------------------------------------------------------------
(* Properties of the cache of tile images.                                 *)

\* The downloads of the call recorded in a value of last.
Fetched(l) == IF l.op \in {"emojify_command", "load_image"} THEN l.fetched ELSE << >>

Forced(l) == l.op = "load_image" /\ l.force_reload

\* C6: a step that is not a forced load_image leaves every image file that
\* exists as it is, downloads only files that were absent, and downloads no
\* file twice; a forced load_image is the only step that downloads a file
\* that exists.
C6_DownloadOnlyWhenAbsent ==
    [][/\ ~Forced(last') =>
            \A p \in Paths : cache[p] # 0 => cache'[p] = cache[p]
       /\ \A i \in 1..Len(Fetched(last')) :
            \/ cache[Fetched(last')[i]] = 0
            \/ Forced(last')
       /\ \A i, j \in 1..Len(Fetched(last')) :
            Fetched(last')[i] = Fetched(last')[j] => i = j
       /\ \A p \in Paths :
            cache'[p] # cache[p] => \E i \in 1..Len(Fetched(last')) : Fetched(last')[i] = p
      ]_vars

\* Witness of C6: a render that pasted two different tiles, downloaded
\* nothing and left in place files older than what the repository serves.
C6_Witness ==
    /\ last.op = "emojify_command"
    /\ last.error = "none"
    /\ last.fetched = << >>
    /\ \E i, j \in 1..Len(last.sent[1].file.pasted) :
            last.sent[1].file.pasted[i].tile # last.sent[1].file.pasted[j].tile
    /\ \A p \in Paths : cache[p] # 0 /\ cache[p] < remote

-----------------------------------------------------------------------------
(* Properties of the command.                                              *)

IsCommand == last.op = "emojify_command"

\* What the user sees of an invocation.
Shown(done) == [error |-> done.error, sent |-> done.sent]

\* C8 as stated: the same tileset name and text, with the same files and
\* network, have the same outcome in every context.
C8_SameOutcomeInEveryContext ==
    IsCommand =>
        \A g \in Contexts :
            Shown(Dispatch([last.ctx EXCEPT !.guild = g], last.before, remote)) = Shown(last)

\* C10 as stated: when the command fails with FileNotFoundError the handler
\* sends exactly one red embed saying the tileset or font cannot be found.
C10_NotFoundIsReported ==
    (IsCommand /\ last.error = "FileNotFoundError")
    => /\ Len(last.sent) = 1
       /\ last.sent[1].embed.colour = "red"
       /\ last.sent[1].embed.description = NotFoundText

====
